---- MODULE Spec2Model ----
(***************************************************************************)
(* Embers: a synthetic load generator for observability pipelines.         *)
(*                                                                         *)
(* The server (server.js) keeps a prom-client registry of instruments and  *)
(* a winston logger; three POST handlers mutate them in proportion to a    *)
(* load level the client supplies.  The browser client (public/flames.js)  *)
(* owns the load level and relays user input as load-change requests.      *)
(*                                                                         *)
(* Node runs every synchronous handler to completion, so each handler is   *)
(* one atomic action; requests that arrive concurrently are handled one    *)
(* after the other in any order, which is what the nondeterministic choice *)
(* of the next request in Next expresses.                                  *)
(*                                                                         *)
(* Not modelled: wall-clock timestamps and the random_value payload of log *)
(* records (written, never read back), the canvas drawing (positions,      *)
(* sizes and hues of particles, the fps display), and the export of        *)
(* telemetry to the collector.                                             *)
(***************************************************************************)
EXTENDS Integers, Sequences, FiniteSets, TLC

VARIABLES
    \* ---- server.js: the prom-client registry ----
    flameCounter,     \* gauge embers_flame_count
    buttonClicks,     \* counter embers_button_clicks_total, per button_type
    randomMetric1,    \* gauge embers_temperature_celsius (a float, see below)
    randomMetric2,    \* counter embers_sparks_emitted_total
    renderDuration,   \* histogram embers_render_duration_ms
    \* ---- server.js: the winston logger (console transport) ----
    logged,           \* number of records written since the server listens
    emitted,          \* the records written by the most recent step, in order
    \* ---- server.js: the process ----
    proc,             \* "running" | "exited"
    exitCode,         \* process.exit's argument, -1 while running
    sdkShutdown,      \* promise of sdk.shutdown(): idle|pending|fulfilled|rejected
    \* ---- observation of the most recent request (history) ----
    last,             \* what the last handled request was and what it did
    handled,          \* number of telemetry-writing requests handled so far
    faults,           \* number of handler calls that threw so far
    sparksRequested,  \* sum of the amounts of all accepted sparks increments
    clicksRequested,  \* number of accepted button-click increments
    lastFlamesCount,  \* count of the latest /api/flames call that set the gauge
    lastLoadSeen,     \* load carried by the latest mutating request of any kind
    \* ---- public/flames.js: the client driver ----
    flameCount,       \* the load level
    flames,           \* number of Flame objects on the canvas
    tracesGenerated,  \* the "traces" statistic shown in the page
    net,              \* bodies of the requests sent and not yet handled
    initialSent,      \* whether the 1000 ms timer has fired
    lastUi,           \* what the last UI event handler did (history)
    frameCount,       \* number of animation frames drawn
    particles,        \* life of each particle of a Flame, in array order
    logsGenerated,    \* the "logs" statistic shown in the page
    responses,        \* responses the server sent, not yet received
    lastFrame,        \* what the last animation frame did (history)
    \* ---- observation of the client and the server together (history) ----
    recordsAcked,     \* records the server wrote for the render-sample and
                      \* periodic-log requests answered ok to the client
    flamesServed,     \* number of load-change requests the server handled
    servedInOrder     \* every load-change request that left the network
                      \* was handled by the server, oldest first

serverVars == <<flameCounter, buttonClicks, randomMetric1, randomMetric2,
                renderDuration, logged, emitted, proc, exitCode, sdkShutdown,
                last, handled, faults, sparksRequested, clicksRequested,
                lastFlamesCount, lastLoadSeen>>

animationVars == <<frameCount, logsGenerated, lastFrame>>

systemVars == <<responses, recordsAcked, flamesServed, servedInOrder>>

clientVars == <<flameCount, flames, tracesGenerated, net, initialSent, lastUi,
                particles, animationVars, systemVars>>

vars == <<serverVars, clientVars>>

-----------------------------------------------------------------------------
(* Bounds of the model.                                                     *)

\* Requests that write telemetry which the server handles in one run (caps
\* the counters).  A scrape writes none and is not counted.
MaxRequests == 2

\* Significand width of the model's binary floating point.  The code's
\* numbers are IEEE-754 doubles (53 bits); the model keeps the same
\* round-to-nearest-even arithmetic at a width TLC's integers can hold.
PrecisionBits == 12

\* Load-change requests of one client that may be in flight together.
MaxInFlight == 1

\* The client's "traces" statistic is counted exactly up to this value and
\* stays there afterwards.
MaxTraces == 25

\* Animation frames drawn by one page.
MaxFrames == 120

-----------------------------------------------------------------------------
(* JavaScript values as they arrive in a JSON body.                         *)

Undefined == [t |-> "undefined", n |-> 0, s |-> ""]
Null      == [t |-> "null",      n |-> 0, s |-> ""]
NaN       == [t |-> "NaN",       n |-> 0, s |-> ""]
Num(n)    == [t |-> "number",    n |-> n, s |-> ""]
Str(s)    == [t |-> "string",    n |-> 0, s |-> s]

\* typeof v === 'number' (NaN is a number)
TypeofNumber(v) == v.t \in {"number", "NaN"}

\* Number.isFinite(v): no coercion, so strings and undefined are not finite
IsFinite(v) == v.t = "number"

\* ToBoolean, as in `if (action)`
Truthy(v) ==
    CASE v.t = "undefined" -> FALSE
      [] v.t = "null"      -> FALSE
      [] v.t = "NaN"       -> FALSE
      [] v.t = "number"    -> v.n # 0
      [] v.t = "string"    -> v.s # ""

\* ToNumber, as applied by the `/` operator.  The only strings of the model
\* are "" (which converts to 0) and non-numeric text (which converts to NaN).
ToNumber(v) ==
    CASE v.t = "undefined" -> NaN
      [] v.t = "null"      -> Num(0)
      [] v.t = "NaN"       -> NaN
      [] v.t = "number"    -> v
      [] v.t = "string"    -> IF v.s = "" THEN Num(0) ELSE NaN

\* Math.ceil(v / d) for a positive integer literal d
CeilDiv(v, d) ==
    LET x == ToNumber(v)
    IN  IF x.t = "NaN" THEN NaN ELSE Num(-((-x.n) \div d))

\* The number of iterations of `for (let i = 0; i < n; i++)`: none when the
\* comparison with n is false from the start (n <= 0, or n is NaN).
LoopCount(n) == IF n.t = "number" /\ n.n > 0 THEN n.n ELSE 0

-----------------------------------------------------------------------------
(* Floating point.  A float is the integer numerator of a fraction over     *)
(* Scale; every operation rounds its exact result to PrecisionBits          *)
(* significant bits, ties to even, as IEEE-754 does.                        *)

RECURSIVE Pow2(_)
Pow2(k) == IF k = 0 THEN 1 ELSE 2 * Pow2(k - 1)

\* Math.random() returns k / Scale for some k in 0 .. Scale-1: one bit less
\* than the significand, as V8's 52 random bits are to the 53 of a double.
Scale == Pow2(PrecisionBits - 1)

RECURSIVE BitLen(_)
BitLen(n) == IF n = 0 THEN 0 ELSE 1 + BitLen(n \div 2)

RoundToFloat(n) ==
    IF BitLen(n) <= PrecisionBits THEN n
    ELSE LET unit == Pow2(BitLen(n) - PrecisionBits)
             q    == n \div unit
             rem  == n % unit
             up   == (2 * rem > unit) \/ (2 * rem = unit /\ q % 2 = 1)
         IN  (IF up THEN q + 1 ELSE q) * unit

\* The draws of Math.random() the model takes: the least and the greatest
\* value it can return.
RandomDraws == {0, Scale - 1}

\* Math.floor(Math.random() * m) for an integer literal m
FloorRandomTimes(r, m) == RoundToFloat(r * m) \div Scale

\* Math.random() > 0.8, the literal 0.8 being the float nearest to 4/5
\* (compared over 2 * Scale, where that float is an integer)
RandomAbove08(r) == 2 * r > (16 * Scale + 5) \div 10

-----------------------------------------------------------------------------
(* server.js: the instruments (prom-client) and the logger (winston).       *)

\* buckets: [1, 5, 10, 25, 50, 100, 250, 500]
Buckets == <<1, 5, 10, 25, 50, 100, 250, 500>>

\* Label values of embers_button_clicks_total the model's requests carry.
ButtonTypes == {"increase", "decrease", "initial"}

\* const messages = [...]
Messages == << "Flame particle physics calculated",
               "Heat dissipation computed",
               "Oxygen consumption measured",
               "Ember glow intensity adjusted",
               "Flame color spectrum updated",
               "Combustion reaction simulated",
               "Thermal dynamics processed",
               "Flame turbulence calculated" >>

\* const logTypes = ['info', 'warn', 'error']
LogTypes == <<"info", "warn", "error">>

\* winston's npm levels: a record is written when its level is at most the
\* logger's, and the logger is created with level: 'info'.
LevelRank(level) ==
    CASE level = "error" -> 0
      [] level = "warn"  -> 1
      [] level = "info"  -> 2
      [] OTHER           -> 5

LoggerLevel == "info"

LoggerWrites(level) == LevelRank(level) <= LevelRank(LoggerLevel)

\* One log record: the level, the message and the fields a handler passes.
LogRecord(level, message, flame_count, action, flame_index, duration_ms) ==
    [level |-> level, message |-> message, flame_count |-> flame_count,
     action |-> action, flame_index |-> flame_index,
     duration_ms |-> duration_ms]

\* The records of a batch that the logger writes, in order.
Written(batch) == SelectSeq(batch, LAMBDA rec : LoggerWrites(rec.level))

\* Gauge.set(value): throws TypeError unless typeof value === 'number'.
GaugeAccepts(v) == TypeofNumber(v)

\* Counter.inc(value): throws when value < 0 ("It is not possible to
\* decrease a counter"); the amounts the handlers pass are integers.
CounterAccepts(amount) == amount >= 0

\* Histogram.observe(value): throws TypeError unless Number.isFinite(value).
HistogramAccepts(v) == IsFinite(v)

\* The index of the first bucket whose upper bound is >= d, or 0 when d lies
\* above them all (it then counts for +Inf only).
FindBound(d) ==
    LET fits == {i \in 1..Len(Buckets) : d <= Buckets[i]}
    IN  IF fits = {} THEN 0 ELSE CHOOSE i \in fits : \A j \in fits : i <= j

\* renderDuration.observe(duration)
Observe(h, d) ==
    [count   |-> h.count + 1,
     sum     |-> h.sum + d,
     buckets |-> [i \in 1..Len(Buckets) |->
                    IF i = FindBound(d) THEN h.buckets[i] + 1
                    ELSE h.buckets[i]]]

EmptyHistogram ==
    [count |-> 0, sum |-> 0, buckets |-> [i \in 1..Len(Buckets) |-> 0]]

\* The registry as GET /metrics reads it.
Registry(fc, bc, t, sp, h) ==
    [embers_flame_count |-> fc, embers_button_clicks_total |-> bc,
     embers_temperature_celsius |-> t, embers_sparks_emitted_total |-> sp,
     embers_render_duration_ms |-> h]

\* A response: the status, the JSON body's fields (Undefined when the body
\* has no such field) and, for a scrape, the registry it rendered.
Response(status, success, count, numLogs, scrape) ==
    [status |-> status, success |-> success, count |-> count,
     logsGenerated |-> numLogs, scrape |-> scrape]

\* res.json() writes NaN as null.
JsonNumber(v) == IF v.t = "NaN" THEN Null ELSE v

\* Express answers an exception thrown by a handler with status 500.
ServerError == Response(500, FALSE, Undefined, Undefined, <<>>)

-----------------------------------------------------------------------------
(* server.js: what the handlers compute.                                    *)

\* if (action)
ClickWanted(action) == Truthy(action)

\* flameCounter.set(count), which throws before it stores a non-number
FlameGaugeStale(old, count) == old

FlameGauge(old, count) == IF GaugeAccepts(count) THEN count.n ELSE old

\* buttonClicks.inc({ button_type: action })
ClicksIncAnyLabel(bc, button_type) == [b \in DOMAIN bc |-> bc[b] + 1]

ClicksInc(bc, button_type) ==
    [bc EXCEPT ![button_type] = bc[button_type] + 1]

\* 800 + Math.random() * 400
Temperature(r) == RoundToFloat(800 * Scale + RoundToFloat(r * 400))

\* Math.floor(Math.random() * 10) + count
SparksAmountNoLoad(r, count) == FloorRandomTimes(r, 10)

SparksAmount(r, count) == FloorRandomTimes(r, 10) + count.n

\* randomMetric2.inc(amount)
SparksOverwrite(sp, amount) == amount

SparksInc(sp, amount) == sp + amount

\* const logCount = Math.ceil(flameCount / 5)
LogCountByThree(fc) == CeilDiv(fc, 3)

LogCount(fc) == CeilDiv(fc, 5)

\* const level = Math.random() > 0.8 ? 'warn' : 'info'
RenderLevel(r) == IF RandomAbove08(r) THEN "warn" ELSE "info"

\* the records of the render loop, i = 0 .. logCount-1
RenderBatch(duration, fc, rs) ==
    [i \in 1..LoopCount(LogCount(fc)) |->
        LogRecord(RenderLevel(rs[i]), "Flame rendered", fc, Undefined,
                  Num(i - 1), duration)]

\* const numLogs = Math.ceil(flameCount / 3)
NumLogsFloor(fc) ==
    LET x == ToNumber(fc)
    IN  IF x.t = "NaN" THEN NaN ELSE Num(x.n \div 3)

NumLogs(fc) == CeilDiv(fc, 3)

\* logTypes[Math.floor(Math.random() * logTypes.length)]
LogsLevel(r) == LogTypes[FloorRandomTimes(r, Len(LogTypes)) + 1]

\* messages[Math.floor(Math.random() * messages.length)]
LogsMessage(r) == Messages[FloorRandomTimes(r, Len(Messages)) + 1]

\* the records of the periodic-log loop
LogsBatch(fc, rl, rm) ==
    [i \in 1..LoopCount(NumLogs(fc)) |->
        LogRecord(LogsLevel(rl[i]), LogsMessage(rm[i]), fc, Undefined,
                  Undefined, Undefined)]

-----------------------------------------------------------------------------
(* The bodies the model's requests carry.                                   *)

\* A missing field, a non-numeric one and a negative one.
Missing    == Undefined
NonNumeric == Str("abc")
Negative   == Num(-1)

\* count of POST /api/flames
CountInputs == {Num(0), Num(15)} \cup {Missing, NonNumeric, Negative}

\* action of POST /api/flames
ActionInputs == {Undefined, Str(""), Str("increase"), Str("decrease")}

\* flameCount of POST /api/render
RenderLoads == {Num(0), Num(5), Num(6)} \cup {Missing, NonNumeric}

\* flameCount of POST /api/logs
LogsLoads == {Num(0), Num(1), Num(3), Num(4)} \cup {Missing, NonNumeric}

\* duration of POST /api/render (milliseconds)
DurationInputs == {Num(5), Num(600)} \cup {Missing}

\* The draws a handler takes: none when it throws before it calls
\* Math.random().
DrawsIf(reached) == IF reached THEN RandomDraws ELSE {0}

-----------------------------------------------------------------------------
(* History: the last request and the registry before and after it.          *)

Snapshot(fc, bc, t, sp, h, lg) ==
    [registry |-> Registry(fc, bc, t, sp, h), logged |-> lg]

Before ==
    Snapshot(flameCounter, buttonClicks, randomMetric1, randomMetric2,
             renderDuration, logged)

After ==
    Snapshot(flameCounter', buttonClicks', randomMetric1', randomMetric2',
             renderDuration', logged')

Request(path, load, action, duration) ==
    [path |-> path, load |-> load, action |-> action, duration |-> duration]

NoRequest == Request("none", Undefined, Undefined, Undefined)

\* Express runs a handler inside try/catch: an exception the handler throws
\* goes to the default error handler, and the process goes on.
ProcCrashOnThrow(threw) == IF threw THEN "exited" ELSE "running"

ProcAfterHandler(threw) == "running"

\* The handler of `req` ran; it threw, or it answered `resp`.
Handled(req, threw, resp) ==
    /\ proc' = ProcAfterHandler(threw)
    /\ last' = [req |-> req, threw |-> threw,
                resp |-> IF threw THEN ServerError ELSE resp,
                before |-> Before, after |-> After, wrote |-> emitted']
    /\ handled' = IF req.path = "/metrics" THEN handled ELSE handled + 1
    /\ faults' = IF threw THEN faults + 1 ELSE faults

-----------------------------------------------------------------------------
(* server.js: the request handlers.                                         *)

Serving == proc = "running" /\ handled < MaxRequests

\* the handler of app.post('/api/flames'): its effect on the server
FlamesHandler(count, action, r1, r2) ==
    LET setOk  == GaugeAccepts(count)
        amount == SparksAmount(r2, count)
        incOk  == setOk /\ CounterAccepts(amount)
    IN  /\ Serving
        /\ flameCounter' = FlameGauge(flameCounter, count)
        /\ buttonClicks' = IF setOk /\ ClickWanted(action)
                           THEN ClicksInc(buttonClicks, action.s)
                           ELSE buttonClicks
        /\ emitted' = IF setOk
                      THEN Written(<<LogRecord("info", "Flame count updated",
                                      count, action, Undefined, Undefined)>>)
                      ELSE <<>>
        /\ logged' = logged + Len(emitted')
        /\ randomMetric1' = IF setOk THEN Temperature(r1) ELSE randomMetric1
        /\ randomMetric2' = IF incOk THEN SparksInc(randomMetric2, amount)
                            ELSE randomMetric2
        /\ sparksRequested' = IF incOk THEN sparksRequested + amount
                              ELSE sparksRequested
        /\ clicksRequested' = IF setOk /\ ClickWanted(action)
                              THEN clicksRequested + 1 ELSE clicksRequested
        /\ lastFlamesCount' = IF count.t = "number" THEN count
                              ELSE lastFlamesCount
        /\ lastLoadSeen' = count
        /\ UNCHANGED <<renderDuration, exitCode, sdkShutdown>>
        /\ Handled(Request("/api/flames", count, action, Undefined), ~incOk,
                   Response(200, TRUE, count, Undefined, <<>>))

\* the handler of app.post('/api/render'): its effect on the server
RenderHandler(duration, fc, rs) ==
    LET obsOk == HistogramAccepts(duration)
    IN  /\ Serving
        /\ renderDuration' = IF obsOk THEN Observe(renderDuration, duration.n)
                             ELSE renderDuration
        /\ emitted' = IF obsOk THEN Written(RenderBatch(duration, fc, rs))
                      ELSE <<>>
        /\ logged' = logged + Len(emitted')
        /\ lastLoadSeen' = fc
        /\ UNCHANGED <<flameCounter, buttonClicks, randomMetric1,
                       randomMetric2, sparksRequested, clicksRequested,
                       lastFlamesCount, exitCode, sdkShutdown>>
        /\ Handled(Request("/api/render", fc, Undefined, duration), ~obsOk,
                   Response(200, TRUE, Undefined, Undefined, <<>>))

\* the handler of app.post('/api/logs'): its effect on the server
LogsHandler(fc, rl, rm) ==
    /\ Serving
    /\ emitted' = Written(LogsBatch(fc, rl, rm))
    /\ logged' = logged + Len(emitted')
    /\ lastLoadSeen' = fc
    /\ UNCHANGED <<flameCounter, buttonClicks, randomMetric1, randomMetric2,
                   renderDuration, sparksRequested, clicksRequested,
                   lastFlamesCount, exitCode, sdkShutdown>>
    /\ Handled(Request("/api/logs", fc, Undefined, Undefined), FALSE,
               Response(200, TRUE, Undefined, JsonNumber(NumLogs(fc)), <<>>))

\* A request from any client arrives at app.post('/api/flames').
PostFlames(count, action, r1, r2) ==
    FlamesHandler(count, action, r1, r2) /\ UNCHANGED clientVars

\* A request from any client arrives at app.post('/api/render').
PostRender(duration, fc, rs) ==
    RenderHandler(duration, fc, rs) /\ UNCHANGED clientVars

\* A request from any client arrives at app.post('/api/logs').
PostLogs(fc, rl, rm) ==
    LogsHandler(fc, rl, rm) /\ UNCHANGED clientVars

\* app.get('/metrics')
GetMetrics ==
    /\ proc = "running"
    /\ emitted' = <<>>
    /\ UNCHANGED <<flameCounter, buttonClicks, randomMetric1, randomMetric2,
                   renderDuration, logged, sparksRequested, clicksRequested,
                   lastFlamesCount, lastLoadSeen, exitCode, sdkShutdown>>
    /\ Handled(Request("/metrics", Undefined, Undefined, Undefined), FALSE,
               Response(200, TRUE, Undefined, Undefined,
                        <<Registry(flameCounter, buttonClicks, randomMetric1,
                                   randomMetric2, renderDuration)>>))
    /\ UNCHANGED clientVars

\* app.get('/health')
GetHealth ==
    /\ Serving
    /\ emitted' = Written(<<LogRecord("info", "Health check performed",
                             Undefined, Undefined, Undefined, Undefined)>>)
    /\ logged' = logged + Len(emitted')
    /\ UNCHANGED <<flameCounter, buttonClicks, randomMetric1, randomMetric2,
                   renderDuration, sparksRequested, clicksRequested,
                   lastFlamesCount, lastLoadSeen, exitCode, sdkShutdown>>
    /\ Handled(Request("/health", Undefined, Undefined, Undefined), FALSE,
               Response(200, FALSE, Undefined, Undefined, <<>>))
    /\ UNCHANGED clientVars

-----------------------------------------------------------------------------
(* server.js: graceful shutdown.                                            *)

ShutdownVarsUnchanged ==
    UNCHANGED <<flameCounter, buttonClicks, randomMetric1, randomMetric2,
                renderDuration, last, handled, faults, sparksRequested,
                clicksRequested, lastFlamesCount, lastLoadSeen, clientVars>>

\* process.on('SIGTERM'): log, then call sdk.shutdown()
Sigterm ==
    /\ proc = "running"
    /\ sdkShutdown = "idle"
    /\ emitted' = Written(<<LogRecord("info",
                     "SIGTERM received, shutting down gracefully",
                     Undefined, Undefined, Undefined, Undefined)>>)
    /\ logged' = logged + Len(emitted')
    /\ sdkShutdown' = "pending"
    /\ UNCHANGED <<proc, exitCode>>
    /\ ShutdownVarsUnchanged

\* The SDK settles the promise sdk.shutdown() returned: the flush succeeded
\* or failed.  Nothing in the program makes it settle.
SdkShutdownSettles(outcome) ==
    /\ proc = "running"
    /\ sdkShutdown = "pending"
    /\ sdkShutdown' = outcome
    /\ UNCHANGED <<logged, emitted, proc, exitCode>>
    /\ ShutdownVarsUnchanged

\* .then(() => { logger.info(...); process.exit(0); })
ShutdownThen ==
    /\ proc = "running"
    /\ sdkShutdown = "fulfilled"
    /\ emitted' = Written(<<LogRecord("info",
                     "OpenTelemetry SDK shut down successfully",
                     Undefined, Undefined, Undefined, Undefined)>>)
    /\ logged' = logged + Len(emitted')
    /\ proc' = "exited"
    /\ exitCode' = 0
    /\ UNCHANGED sdkShutdown
    /\ ShutdownVarsUnchanged

\* .catch((error) => { logger.error(...); process.exit(1); })
ShutdownCatch ==
    /\ proc = "running"
    /\ sdkShutdown = "rejected"
    /\ emitted' = Written(<<LogRecord("error",
                     "Error shutting down OpenTelemetry SDK",
                     Undefined, Undefined, Undefined, Undefined)>>)
    /\ logged' = logged + Len(emitted')
    /\ proc' = "exited"
    /\ exitCode' = 1
    /\ UNCHANGED sdkShutdown
    /\ ShutdownVarsUnchanged

-----------------------------------------------------------------------------
(* The server under requests of any client.                                 *)

InitServer ==
    /\ flameCounter = 0
    /\ buttonClicks = [b \in ButtonTypes |-> 0]
    /\ randomMetric1 = 0
    /\ randomMetric2 = 0
    /\ renderDuration = EmptyHistogram
    /\ logged = 0
    /\ emitted = <<>>
    /\ proc = "running"
    /\ exitCode = -1
    /\ sdkShutdown = "idle"
    /\ last = [req |-> NoRequest, threw |-> FALSE, resp |-> Response(0, FALSE, Undefined,
                                                    Undefined, <<>>),
               before |-> Snapshot(0, [b \in ButtonTypes |-> 0], 0, 0,
                                   EmptyHistogram, 0),
               after  |-> Snapshot(0, [b \in ButtonTypes |-> 0], 0, 0,
                                   EmptyHistogram, 0),
               wrote |-> <<>>]
    /\ handled = 0
    /\ faults = 0
    /\ sparksRequested = 0
    /\ clicksRequested = 0
    /\ lastFlamesCount = Undefined
    /\ lastLoadSeen = Undefined

-----------------------------------------------------------------------------
(* public/flames.js: class Flame.  A particle is modelled by its life, in  *)
(* units of the 0.01 it loses per frame: life 1 is FullLife units.  The    *)
(* double that 100 subtractions of 0.01 from 1 leave is -7.5e-16, which is *)
(* <= 0 as the exact result 0 is, so the units expire on the same frame.   *)

\* const particleCount = 20
ParticleCount == 20

\* life: 1, with p.life -= 0.01 per update
FullLife == 100

\* if (this.particles.length < 20)
RefillBelow == 20

\* createParticles(): pushes particleCount new particles
CreateParticles(ps) == ps \o [i \in 1..ParticleCount |-> FullLife]

\* new Flame(x, y)
NewFlame == CreateParticles(<<>>)

\* The forEach of update() from array index `index` on (counted from 1).
\* forEach visits the indices in order and reads the array as it is at
\* each visit: after splice(index, 1) the elements behind move down by
\* one, and the visit of the next index passes over the one that moved
\* into the freed place.
RECURSIVE UpdateFrom(_, _)
UpdateFrom(ps, index) ==
    IF index > Len(ps) THEN ps
    ELSE LET life == ps[index] - 1
         IN  IF life <= 0
             THEN UpdateFrom(SubSeq(ps, 1, index - 1)
                                \o SubSeq(ps, index + 1, Len(ps)), index + 1)
             ELSE UpdateFrom([ps EXCEPT ![index] = life], index + 1)

\* update()
Update(ps) ==
    LET kept == UpdateFrom(ps, 1)
    IN  IF Len(kept) < RefillBelow THEN CreateParticles(kept) ELSE kept

InitClient ==
    /\ flameCount = 10
    /\ flames = 10
    /\ tracesGenerated = 10
    /\ net = <<>>
    /\ initialSent = FALSE
    /\ lastUi = [event |-> "none", via |-> "none", before |-> 10, after |-> 10,
                 sent |-> <<>>]
    /\ frameCount = 1
    /\ particles = Update(NewFlame)
    /\ logsGenerated = 0
    /\ responses = <<>>
    /\ lastFrame = [frame |-> 1, load |-> 10, sent |-> <<>>]
    /\ recordsAcked = 0
    /\ flamesServed = 0
    /\ servedInOrder = TRUE

Init == InitServer /\ InitClient

\* A request arrives and its handler runs.
RequestNext ==
    \/ \E count \in CountInputs, action \in ActionInputs :
          \E r1 \in DrawsIf(GaugeAccepts(count)),
             r2 \in DrawsIf(GaugeAccepts(count)) :
             PostFlames(count, action, r1, r2)
    \/ \E duration \in DurationInputs, fc \in RenderLoads :
          \E rs \in [1..LoopCount(LogCount(fc)) ->
                        DrawsIf(HistogramAccepts(duration))] :
             PostRender(duration, fc, rs)
    \/ \E fc \in LogsLoads :
          \E rl \in [1..LoopCount(NumLogs(fc)) -> RandomDraws],
             rm \in [1..LoopCount(NumLogs(fc)) -> RandomDraws] :
             PostLogs(fc, rl, rm)
    \/ GetMetrics
    \/ GetHealth

\* A step of the graceful shutdown.
ShutdownNext ==
    \/ Sigterm
    \/ \E outcome \in {"fulfilled", "rejected"} : SdkShutdownSettles(outcome)
    \/ ShutdownThen
    \/ ShutdownCatch

\* The server while it serves.
Next == RequestNext

Spec == Init /\ [][Next]_vars

\* The server from start to exit.  The event loop runs a promise's callback
\* once the promise has settled, hence the fairness of the two callbacks;
\* nothing obliges the SDK to settle the promise.
LifecycleNext == RequestNext \/ ShutdownNext

FairSpec ==
    /\ Init
    /\ [][LifecycleNext]_vars
    /\ WF_vars(ShutdownThen)
    /\ WF_vars(ShutdownCatch)

-----------------------------------------------------------------------------
(* public/flames.js: the client driver.                                     *)

MinFlames == 5
MaxFlames == 500
FlameStep == 5

\* if (flameCount < 500)
IncreaseAllowedAtMax(fc) == fc <= MaxFlames

IncreaseAllowed(fc) == fc < MaxFlames

\* if (flameCount > 5)
DecreaseAllowed(fc) == fc > MinFlames

\* The statistic is counted up to MaxTraces.
Counted(n) == IF n > MaxTraces THEN MaxTraces ELSE n

-----------------------------------------------------------------------------
(* public/flames.js: the requests.                                          *)

\* sendFlameUpdate('initial') in the timer: the count is flameCount as it is
\* when the timer fires
InitialLoadAtPageStart(fc) == 10

InitialLoad(fc) == fc

\* body: JSON.stringify({ count: flameCount, action })
FlameUpdate(fc, action) == [count |-> fc, action |-> action]

\* The load-change requests among the bodies in seq.
LoadChanges(seq) == SelectSeq(seq, LAMBDA m : "count" \in DOMAIN m)

\* The requests a handler sent: what it appended to net.
Sent == SubSeq(net', Len(net) + 1, Len(net'))

UiEvent(event, via) ==
    lastUi' = [event |-> event, via |-> via, before |-> flameCount,
               after |-> flameCount', sent |-> Sent]

\* increaseBtn's click listener: flameCount += 5; initFlames() (which ends
\* with sendTraceData()); sendFlameUpdate('increase') up to its fetch.
Increase(via) ==
    /\ IF IncreaseAllowed(flameCount)
       THEN /\ Len(LoadChanges(net)) < MaxInFlight
            /\ flameCount' = flameCount + FlameStep
            /\ flames' = flameCount'
            /\ particles' = NewFlame
            /\ tracesGenerated' = Counted(tracesGenerated + flameCount')
            /\ net' = Append(net, FlameUpdate(flameCount', "increase"))
       ELSE UNCHANGED <<flameCount, flames, particles, tracesGenerated, net>>
    /\ UiEvent("increase", via)
    /\ UNCHANGED <<initialSent, serverVars, animationVars, systemVars>>

\* decreaseBtn's click listener
Decrease(via) ==
    /\ IF DecreaseAllowed(flameCount)
       THEN /\ Len(LoadChanges(net)) < MaxInFlight
            /\ flameCount' = flameCount - FlameStep
            /\ flames' = flameCount'
            /\ particles' = NewFlame
            /\ tracesGenerated' = Counted(tracesGenerated + flameCount')
            /\ net' = Append(net, FlameUpdate(flameCount', "decrease"))
       ELSE UNCHANGED <<flameCount, flames, particles, tracesGenerated, net>>
    /\ UiEvent("decrease", via)
    /\ UNCHANGED <<initialSent, serverVars, animationVars, systemVars>>

ClickIncrease == Increase("button")

ClickDecrease == Decrease("button")

Keys == {"+", "=", "-", "_", "a"}

\* the keydown listener: '+' and '=' click increaseBtn, '-' and '_'
\* click decreaseBtn, any other key does nothing
KeyDown(key) ==
    CASE key \in {"+", "="} -> Increase("key")
      [] key \in {"-", "_"} -> Decrease("key")
      [] OTHER -> /\ UNCHANGED <<flameCount, flames, particles,
                                 tracesGenerated, net>>
                  /\ UiEvent("none", "key")
                  /\ UNCHANGED <<initialSent, serverVars, animationVars,
                                 systemVars>>

\* the resize listener: initFlames()
ResizeSendsUpdate ==
    /\ flames' = flameCount
    /\ particles' = NewFlame
    /\ tracesGenerated' = Counted(tracesGenerated + flameCount)
    /\ net' = Append(net, FlameUpdate(flameCount, "resize"))
    /\ UNCHANGED flameCount
    /\ UiEvent("resize", "window")
    /\ UNCHANGED <<initialSent, serverVars, animationVars, systemVars>>

Resize ==
    /\ flames' = flameCount
    /\ particles' = NewFlame
    /\ tracesGenerated' = Counted(tracesGenerated + flameCount)
    /\ UNCHANGED <<flameCount, net>>
    /\ UiEvent("resize", "window")
    /\ UNCHANGED <<initialSent, serverVars, animationVars, systemVars>>

\* setTimeout(() => { sendFlameUpdate('initial'); }, 1000)
InitialTimer ==
    /\ ~initialSent
    /\ Len(LoadChanges(net)) < MaxInFlight
    /\ initialSent' = TRUE
    /\ net' = Append(net, FlameUpdate(InitialLoad(flameCount), "initial"))
    /\ UNCHANGED <<flameCount, flames, particles, tracesGenerated, lastUi,
                   serverVars, animationVars, systemVars>>

RemoveAt(seq, i) == SubSeq(seq, 1, i - 1) \o SubSeq(seq, i + 1, Len(seq))

\* sendFlameUpdate after its await: the fetch of request i settles, with
\* response.ok, with another status, or with a network error (the catch).
FlameUpdateSettles(i, outcome) ==
    /\ i \in 1..Len(net)
    /\ net' = RemoveAt(net, i)
    /\ tracesGenerated' = IF outcome = "ok" THEN Counted(tracesGenerated + 1)
                          ELSE tracesGenerated
    /\ UNCHANGED <<flameCount, flames, particles, initialSent, lastUi,
                   serverVars, animationVars, systemVars>>

ClientNext ==
    \/ ClickIncrease
    \/ ClickDecrease
    \/ \E key \in Keys : KeyDown(key)
    \/ Resize
    \/ InitialTimer
    \/ \E i \in 1..MaxInFlight, outcome \in {"ok", "notok", "error"} :
          FlameUpdateSettles(i, outcome)

\* The client with the network and the server as its environment.
ClientSpec == Init /\ [][ClientNext]_vars

-----------------------------------------------------------------------------
(* public/flames.js: the animation loop.                                    *)

\* if (frameCount % 60 === 0)
RenderPeriod == 60

MathMin(a, b) == IF a < b THEN a ELSE b

\* 120 - Math.min(flameCount * 2, 100)
IntervalUnclamped(fc) == 120 - fc * 2

Interval(fc) == 120 - MathMin(fc * 2, 100)

RenderDue(frame) == frame % RenderPeriod = 0

\* frameCount % interval === 0; in JavaScript x % 0 is NaN, which is not 0
LogsDue(frame, fc) == Interval(fc) > 0 /\ frame % Interval(fc) = 0

\* performance.now() - renderStart, in milliseconds
RenderTimes == {5}

\* body: JSON.stringify({ duration, flameCount })
RenderMetrics(duration, fc) == [duration |-> duration, flameCount |-> fc]

\* body: JSON.stringify({ flameCount })
LogsRequest(fc) == [flameCount |-> fc]

\* animate(): one frame.  Every Flame is updated; sendRenderMetrics and
\* generateLogs run up to their fetch.
Animate ==
    /\ frameCount < MaxFrames
    /\ frameCount' = frameCount + 1
    /\ particles' = Update(particles)
    /\ \E duration \in RenderTimes :
          net' = net
                 \o (IF RenderDue(frameCount')
                     THEN <<RenderMetrics(duration, flameCount)>> ELSE <<>>)
                 \o (IF LogsDue(frameCount', flameCount)
                     THEN <<LogsRequest(flameCount)>> ELSE <<>>)
    /\ lastFrame' = [frame |-> frameCount', load |-> flameCount, sent |-> Sent]
    /\ UNCHANGED <<flameCount, flames, tracesGenerated, initialSent, lastUi,
                   logsGenerated, systemVars, serverVars>>

AnimationNext ==
    \/ Animate
    \/ ClickIncrease
    \/ ClickDecrease

\* The page while it animates and the user changes the load; no response
\* arrives.
AnimationSpec == Init /\ [][AnimationNext]_vars

-----------------------------------------------------------------------------
(* The page and the server together.  A request in net reaches the server,  *)
(* whose handler runs and whose response travels back; the network delivers *)
(* requests and responses in any order.                                     *)

\* The response to the request with body `body`, as fetch resolves it;
\* `wrote` is the number of log records its handler wrote (history).
Fetched(body, resp, wrote) ==
    [for |-> body, ok |-> resp.status \in 200..299, data |-> resp,
     wrote |-> wrote]

ServedVarsUnchanged ==
    UNCHANGED <<flameCount, flames, tracesGenerated, initialSent, lastUi,
                particles, animationVars, recordsAcked>>

\* The same draw for every record of a batch.
SameDraw(n) == {[k \in 1..n |-> r] : r \in RandomDraws}

\* A load-change request in net reaches the server.
ServeFlames ==
    \E i \in 1..Len(net) :
       /\ "count" \in DOMAIN net[i]
       /\ \E r1 \in RandomDraws, r2 \in RandomDraws :
             FlamesHandler(Num(net[i].count), Str(net[i].action), r1, r2)
       /\ net' = RemoveAt(net, i)
       /\ responses' = Append(responses,
                              Fetched(net[i], last'.resp, Len(emitted')))
       /\ flamesServed' = flamesServed + 1
       /\ servedInOrder' = (servedInOrder
                              /\ LoadChanges(SubSeq(net, 1, i - 1)) = <<>>)
       /\ ServedVarsUnchanged

\* A render-sample request in net reaches the server.
ServeRender ==
    \E i \in 1..Len(net) :
       /\ "duration" \in DOMAIN net[i]
       /\ \E rs \in SameDraw(LoopCount(LogCount(Num(net[i].flameCount)))) :
             RenderHandler(Num(net[i].duration), Num(net[i].flameCount), rs)
       /\ net' = RemoveAt(net, i)
       /\ responses' = Append(responses,
                              Fetched(net[i], last'.resp, Len(emitted')))
       /\ UNCHANGED <<flamesServed, servedInOrder>>
       /\ ServedVarsUnchanged

\* A periodic-log request in net reaches the server.
ServeLogs ==
    \E i \in 1..Len(net) :
       /\ DOMAIN net[i] = {"flameCount"}
       /\ \E rl \in SameDraw(LoopCount(NumLogs(Num(net[i].flameCount)))),
             rm \in SameDraw(LoopCount(NumLogs(Num(net[i].flameCount)))) :
             LogsHandler(Num(net[i].flameCount), rl, rm)
       /\ net' = RemoveAt(net, i)
       /\ responses' = Append(responses,
                              Fetched(net[i], last'.resp, Len(emitted')))
       /\ UNCHANGED <<flamesServed, servedInOrder>>
       /\ ServedVarsUnchanged

\* Math.ceil(flameCount / 5) in the page, where flameCount is a number
MathCeil(n, d) == -((-n) \div d)

\* data.logsGenerated || 0
OrZero(v) == IF Truthy(v) THEN v.n ELSE 0

\* sendFlameUpdate after its await
FlameUpdateAnswered ==
    \E j \in 1..Len(responses) :
       /\ "count" \in DOMAIN responses[j].for
       /\ responses' = RemoveAt(responses, j)
       /\ tracesGenerated' = IF responses[j].ok THEN Counted(tracesGenerated + 1)
                             ELSE tracesGenerated
       /\ UNCHANGED <<flameCount, flames, net, initialSent, lastUi, particles,
                      animationVars, recordsAcked, flamesServed, servedInOrder,
                      serverVars>>

\* sendRenderMetrics after its awaits
RenderMetricsAnswered ==
    \E j \in 1..Len(responses) :
       /\ "duration" \in DOMAIN responses[j].for
       /\ responses' = RemoveAt(responses, j)
       /\ logsGenerated' = IF responses[j].ok
                           THEN logsGenerated + MathCeil(flameCount, 5)
                           ELSE logsGenerated
       /\ recordsAcked' = IF responses[j].ok
                          THEN recordsAcked + responses[j].wrote
                          ELSE recordsAcked
       /\ UNCHANGED <<flameCount, flames, tracesGenerated, net, initialSent,
                      lastUi, particles, frameCount, lastFrame, flamesServed,
                      servedInOrder, serverVars>>

\* generateLogs after its awaits
LogsAnswered ==
    \E j \in 1..Len(responses) :
       /\ DOMAIN responses[j].for = {"flameCount"}
       /\ responses' = RemoveAt(responses, j)
       /\ logsGenerated' = IF responses[j].ok
                           THEN logsGenerated
                                + OrZero(responses[j].data.logsGenerated)
                           ELSE logsGenerated
       /\ recordsAcked' = IF responses[j].ok
                          THEN recordsAcked + responses[j].wrote
                          ELSE recordsAcked
       /\ UNCHANGED <<flameCount, flames, tracesGenerated, net, initialSent,
                      lastUi, particles, frameCount, lastFrame, flamesServed,
                      servedInOrder, serverVars>>

LoadNext ==
    \/ ClickIncrease
    \/ ClickDecrease
    \/ InitialTimer
    \/ ServeFlames
    \/ FlameUpdateAnswered

\* The page's load controls, the network and the server.
LoadSpec == Init /\ [][LoadNext]_vars

TelemetryNext ==
    \/ Animate
    \/ ClickIncrease
    \/ ClickDecrease
    \/ ServeRender
    \/ ServeLogs
    \/ RenderMetricsAnswered
    \/ LogsAnswered

\* The animating page, the network and the server.
TelemetrySpec == Init /\ [][TelemetryNext]_vars

-----------------------------------------------------------------------------
(* Properties of the request handlers, stated on the last request: its      *)
(* body, its response, the registry before and after it, and the records    *)
(* it wrote.                                                                *)

\* A load level: a number that is not negative.
WellFormedLoad(v) == v.t = "number" /\ v.n >= 0

SparksOf(snap) == snap.registry.embers_sparks_emitted_total
ClicksOf(snap) == snap.registry.embers_button_clicks_total
TemperatureOf(snap) == snap.registry.embers_temperature_celsius
HistogramOf(snap) == snap.registry.embers_render_duration_ms
FlameCountOf(snap) == snap.registry.embers_flame_count

ClicksDelta(b) == ClicksOf(last.after)[b] - ClicksOf(last.before)[b]

\* C1: a periodic-log event with load L >= 0 writes exactly ceil(L/3)
\* records (the least n with 3n >= L; 0, 1, 1, 2 for L = 0, 1, 3, 4), and
\* the response's logsGenerated is the number of records written.
C1_PeriodicLogVolume ==
    (last.req.path = "/api/logs" /\ WellFormedLoad(last.req.load)) =>
        LET L == last.req.load.n
            n == Len(last.wrote)
        IN  /\ 3 * n >= L
            /\ 3 * (n - 1) < L
            /\ (L = 0 => n = 0) /\ (L = 1 => n = 1)
            /\ (L = 3 => n = 1) /\ (L = 4 => n = 2)
            /\ last.after.logged = last.before.logged + n
            /\ last.resp.status = 200
            /\ last.resp.logsGenerated = Num(n)

C1_Witness ==
    /\ last.req.path = "/api/logs"
    /\ last.req.load = Num(4)
    /\ Len(last.wrote) = 2
    /\ last.resp.logsGenerated = Num(2)

\* C2: a render-sample event with load L >= 0 and duration D records one
\* histogram observation of D (count + 1, sum + D, the first bucket that
\* holds D + 1) and writes exactly ceil(L/5) records (1 for L = 5, 2 for
\* L = 6), whose flame_index runs 0, 1, ... in order and whose level is
\* info or warn.
C2_RenderSample ==
    (/\ last.req.path = "/api/render"
     /\ WellFormedLoad(last.req.load)
     /\ last.req.duration.t = "number") =>
        LET L  == last.req.load.n
            D  == last.req.duration.n
            n  == Len(last.wrote)
            hb == HistogramOf(last.before)
            ha == HistogramOf(last.after)
        IN  /\ ha.count = hb.count + 1
            /\ ha.sum = hb.sum + D
            /\ \A i \in 1..Len(Buckets) :
                  ha.buckets[i] - hb.buckets[i] =
                     IF D <= Buckets[i] /\ \A j \in 1..(i - 1) : D > Buckets[j]
                     THEN 1 ELSE 0
            /\ 5 * n >= L
            /\ 5 * (n - 1) < L
            /\ (L = 5 => n = 1) /\ (L = 6 => n = 2)
            /\ \A i \in 1..n :
                  /\ last.wrote[i].flame_index = Num(i - 1)
                  /\ last.wrote[i].level \in {"info", "warn"}
            /\ last.after.logged = last.before.logged + n

C2_Witness ==
    /\ last.req.path = "/api/render"
    /\ last.req.load = Num(6)
    /\ last.req.duration = Num(5)
    /\ Len(last.wrote) = 2
    /\ last.wrote[1].level = "info"
    /\ last.wrote[2].level = "warn"
    /\ HistogramOf(last.after).buckets[2] = HistogramOf(last.before).buckets[2] + 1

\* What a load-change event does apart from the click counter: the gauge
\* holds the load, one info record carries the load and the action, and
\* the response is {success: true, count: L}.
LoadChangeBasics ==
    /\ FlameCountOf(last.after) = last.req.load.n
    /\ Len(last.wrote) = 1
    /\ last.wrote[1].level = "info"
    /\ last.wrote[1].flame_count = last.req.load
    /\ last.wrote[1].action = last.req.action
    /\ last.after.logged = last.before.logged + 1
    /\ last.resp.status = 200
    /\ last.resp.success = TRUE
    /\ last.resp.count = last.req.load

\* C3 as claimed: a load-change event sets the gauge to L, increments the
\* click counter of label `action` by 1 if and only if the body has an
\* action, writes one info record and answers {success: true, count: L}.
C3_ClickIffPresent ==
    (last.req.path = "/api/flames" /\ WellFormedLoad(last.req.load)) =>
        /\ LoadChangeBasics
        /\ (last.req.action.t # "undefined") =>
              \E b \in ButtonTypes : b = last.req.action.s /\ ClicksDelta(b) = 1
        /\ \A b \in ButtonTypes :
              (last.req.action.t = "undefined" \/ b # last.req.action.s) =>
                 ClicksDelta(b) = 0

\* C3, amended: as claimed, but the click counter of label `action` is
\* incremented by 1 if and only if the action is present and not the empty
\* string; no click counter changes when it is absent or empty.
C3_ClickIffNonEmpty ==
    (last.req.path = "/api/flames" /\ WellFormedLoad(last.req.load)) =>
        LET given == last.req.action.t = "string" /\ last.req.action.s # ""
        IN  /\ LoadChangeBasics
            /\ given =>
                  \E b \in ButtonTypes :
                     b = last.req.action.s /\ ClicksDelta(b) = 1
            /\ \A b \in ButtonTypes :
                  (~given \/ b # last.req.action.s) => ClicksDelta(b) = 0

C3_Witness ==
    /\ last.req.path = "/api/flames"
    /\ last.req.load = Num(15)
    /\ last.req.action = Str("increase")
    /\ last.resp.status = 200
    /\ last.resp.count = Num(15)
    /\ FlameCountOf(last.after) = 15
    /\ ClicksOf(last.before)["increase"] = 1
    /\ ClicksOf(last.after)["increase"] = 2

\* The sparks counter grows by an integer in [L, L + 9].
SparksGrowByLoad ==
    LET L == last.req.load.n
        d == SparksOf(last.after) - SparksOf(last.before)
    IN  d \in L..(L + 9)

\* C4 as claimed: a load-change event with load L >= 0 adds an integer in
\* [L, L + 9] to the sparks counter and sets the temperature gauge to a
\* value v with 800 <= v < 1200.
C4_TemperatureBelow1200 ==
    (last.req.path = "/api/flames" /\ WellFormedLoad(last.req.load)) =>
        /\ SparksGrowByLoad
        /\ 800 * Scale <= TemperatureOf(last.after)
        /\ TemperatureOf(last.after) < 1200 * Scale

\* C4, amended: a load-change event with load L >= 0 adds an integer in
\* [L, L + 9] to the sparks counter and sets the temperature gauge to a
\* value v with 800 <= v <= 1200 (the sum is rounded, and rounds to 1200
\* for the greatest draw).
C4_TemperatureUpTo1200 ==
    (last.req.path = "/api/flames" /\ WellFormedLoad(last.req.load)) =>
        /\ SparksGrowByLoad
        /\ 800 * Scale <= TemperatureOf(last.after)
        /\ TemperatureOf(last.after) <= 1200 * Scale

C4_Witness ==
    /\ last.req.path = "/api/flames"
    /\ last.req.load = Num(0)
    /\ ~last.threw
    /\ SparksOf(last.after) = SparksOf(last.before) + 9
    /\ TemperatureOf(last.after) = 1200 * Scale

\* C5 as claimed: the embers_flame_count a scrape returns is the load of
\* the most recent mutating request, whichever endpoint it went to.
C5_GaugeFollowsAnyRequest ==
    (last.req.path = "/metrics" /\ WellFormedLoad(lastLoadSeen)) =>
        last.resp.scrape[1].embers_flame_count = lastLoadSeen.n

\* C5, amended: the embers_flame_count a scrape returns is the count of the
\* most recent load-change request that carried a number (0 before any);
\* render-sample and periodic-log requests leave it as it is.
C5_GaugeFollowsLoadChange ==
    (last.req.path = "/metrics") =>
        last.resp.scrape[1].embers_flame_count =
            IF lastFlamesCount.t = "number" THEN lastFlamesCount.n ELSE 0

C5_Witness ==
    /\ last.req.path = "/metrics"
    /\ lastFlamesCount = Num(15)
    /\ lastLoadSeen = Num(4)
    /\ last.resp.scrape[1].embers_flame_count = 15

RECURSIVE SumOver(_, _)
SumOver(f, S) ==
    IF S = {} THEN 0
    ELSE LET x == CHOOSE y \in S : TRUE IN f[x] + SumOver(f, S \ {x})

\* C6: the counters only accumulate: no request lowers the sparks counter
\* or a click counter, and each total is the sum of the increments made,
\* whatever the order in which the requests were handled.
C6_CountersAccumulate ==
    /\ randomMetric2 = sparksRequested
    /\ SumOver(buttonClicks, ButtonTypes) = clicksRequested
    /\ SparksOf(last.after) >= SparksOf(last.before)
    /\ \A b \in ButtonTypes : ClicksDelta(b) >= 0

C6_Witness ==
    /\ last.req.path = "/api/flames"
    /\ ~last.threw
    /\ SparksOf(last.before) = 9
    /\ SparksOf(last.after) = 9 + 24
    /\ randomMetric2 = 33

\* A body with a missing or malformed field.
Malformed(req) ==
    CASE req.path = "/api/flames" -> ~WellFormedLoad(req.load)
      [] req.path = "/api/render" ->
            req.load.t # "number" \/ req.duration.t # "number"
      [] req.path = "/api/logs"   -> req.load.t # "number"
      [] OTHER -> FALSE

\* C7: a mutating request with a missing or malformed field is answered
\* with a client-error status, changes no instrument and writes no record.
C7_MalformedRejected ==
    Malformed(last.req) =>
        /\ last.resp.status \in 400..499
        /\ last.after = last.before
        /\ last.wrote = <<>>

C9_SigtermLeadsToExit == (sdkShutdown # "idle") ~> (proc = "exited")

-----------------------------------------------------------------------------
(* Properties of the client driver, stated on the last UI event.            *)

\* C10: the load is a multiple of 5 in [5, 500]; an increase or decrease
\* below its bound moves it by 5 and sends exactly one load-change request
\* with the new load and the matching action; at its bound (increase at
\* 500, decrease at 5) it changes nothing and sends nothing.
C10_LoadControl ==
    /\ flameCount \in {5 * k : k \in 1..100}
    /\ lastUi.event = "increase" =>
          IF lastUi.before < 500
          THEN /\ lastUi.after = lastUi.before + 5
               /\ lastUi.sent = <<[count |-> lastUi.after,
                                   action |-> "increase"]>>
          ELSE lastUi.after = lastUi.before /\ lastUi.sent = <<>>
    /\ lastUi.event = "decrease" =>
          IF lastUi.before > 5
          THEN /\ lastUi.after = lastUi.before - 5
               /\ lastUi.sent = <<[count |-> lastUi.after,
                                   action |-> "decrease"]>>
          ELSE lastUi.after = lastUi.before /\ lastUi.sent = <<>>

C10_Witness ==
    /\ lastUi.event = "increase"
    /\ lastUi.via = "key"
    /\ lastUi.before = 500
    /\ flameCount = 500
    /\ net = <<>>

-----------------------------------------------------------------------------
(* Properties of the animation loop, stated on the last frame.              *)

\* The loads the controls can set: the multiples of 5 from 5 to 500.
ReachableLoads == {l \in MinFlames..MaxFlames : l % FlameStep = 0}

MathMax(a, b) == IF a > b THEN a ELSE b

\* interval(L) = max(120 - min(2*L, 100), 1)
StatedInterval(l) == MathMax(120 - MathMin(2 * l, 100), 1)

\* The periodic-log requests among the bodies in seq.
PeriodicLogs(seq) == SelectSeq(seq, LAMBDA m : DOMAIN m = {"flameCount"})

\* C11: a frame sends one periodic-log request carrying the current load L
\* when its frame count is a multiple of max(120 - min(2*L, 100), 1), and
\* none otherwise; for every load the controls can set, the interval the
\* code computes is that number, is at least 1, and does not grow with L.
C11_PeriodicLogCadence ==
    /\ PeriodicLogs(lastFrame.sent) =
          IF lastFrame.frame % StatedInterval(lastFrame.load) = 0
          THEN <<LogsRequest(lastFrame.load)>> ELSE <<>>
    /\ \A l \in ReachableLoads :
          /\ Interval(l) = StatedInterval(l)
          /\ Interval(l) >= 1
          /\ \A m \in ReachableLoads : l <= m => Interval(m) <= Interval(l)

\* a frame after a load change to 15 sends the periodic-log request of the
\* shorter interval 90
C11_Witness ==
    /\ lastFrame.frame = 90
    /\ lastFrame.load = 15
    /\ lastFrame.sent = <<LogsRequest(15)>>
    /\ lastUi.event = "increase"

-----------------------------------------------------------------------------
(* Properties of the resize listener.                                       *)

\* C12: a window resize sends no request (none to /api/flames, /api/render
\* or /api/logs) and leaves the load unchanged; it rebuilds the flames for
\* the current load, each with a new set of particles.
C12_ResizeSendsNothing ==
    lastUi.event = "resize" =>
        /\ lastUi.sent = <<>>
        /\ lastUi.after = lastUi.before
        /\ flameCount = lastUi.before
        /\ flames = flameCount
        /\ particles = NewFlame

\* a resize after the load was raised to 15, with a request still in flight
C12_Witness ==
    /\ lastUi.event = "resize"
    /\ lastUi.before = 15
    /\ flames = 15
    /\ net = <<FlameUpdate(15, "increase")>>

-----------------------------------------------------------------------------
(* Properties of class Flame.                                               *)

\* C13: after every update() a flame has exactly 20 particles and none of
\* them is expired (life <= 0).
C13_TwentyLiveParticles ==
    /\ Len(particles) = 20
    /\ \A i \in 1..Len(particles) : particles[i] > 0

-----------------------------------------------------------------------------
(* Properties of the page and the server together.                          *)

C14_LogsStatisticMatchesServer == logsGenerated = recordsAcked

====
